---- MODULE Spec2Model ----
(***************************************************************************)
(* Model of StandardAtmosphere.py: the look-up table, get_index,           *)
(* linear_interpolate, the four single-quantity accessors and              *)
(* get_standard_atmosphere.                                                *)
(*                                                                         *)
(* Python's float is IEEE-754 binary64.  The arithmetic of the module      *)
(* (float literals, -, /, *, +, <) is modelled bit-exactly with            *)
(* round-to-nearest-even on a 53-bit significand.  A float is the record   *)
(* [sign, man, exp] standing for (-1)^sign * man * 2^exp, where man is a   *)
(* natural number held as a little-endian sequence of 15-bit limbs and is  *)
(* either zero or in [2^52, 2^53), so that two floats are equal (Python    *)
(* ==) exactly when their records are equal.  The exponent is not capped:  *)
(* for the altitudes explored no result leaves the normal range of         *)
(* binary64.  Python's int is unbounded and is modelled by Int.            *)
(***************************************************************************)
EXTENDS Integers, Sequences, FiniteSets, TLC

----------------------------------------------------------------------------
(* Natural numbers of arbitrary size: little-endian limbs, no high zero.   *)

Base == 2^15

\* the number of bits of k
RECURSIVE SmallBitLen(_)
SmallBitLen(k) == IF k = 0 THEN 0 ELSE 1 + SmallBitLen(k \div 2)

\* the bits one limb holds
LimbBits == SmallBitLen(Base - 1)

Limb(a, i) == IF i <= Len(a) THEN a[i] ELSE 0

RECURSIVE Trim(_)
Trim(a) ==
  IF a = <<>> THEN a
  ELSE IF a[Len(a)] = 0 THEN Trim(SubSeq(a, 1, Len(a) - 1)) ELSE a

RECURSIVE NatOfInt(_)
NatOfInt(n) == IF n = 0 THEN <<>> ELSE <<n % Base>> \o NatOfInt(n \div Base)

RECURSIVE AddFrom(_, _, _, _)
AddFrom(a, b, i, c) ==
  IF i > Len(a) /\ i > Len(b) THEN (IF c = 0 THEN <<>> ELSE <<c>>)
  ELSE LET s == Limb(a, i) + Limb(b, i) + c
       IN  <<s % Base>> \o AddFrom(a, b, i + 1, s \div Base)

NatAdd(a, b) == AddFrom(a, b, 1, 0)

RECURSIVE SubFrom(_, _, _, _)
SubFrom(a, b, i, c) ==
  IF i > Len(a) THEN <<>>
  ELSE LET d == a[i] - Limb(b, i) - c
       IN  IF d < 0 THEN <<d + Base>> \o SubFrom(a, b, i + 1, 1)
           ELSE <<d>> \o SubFrom(a, b, i + 1, 0)

\* a - b for a >= b
NatSub(a, b) == Trim(SubFrom(a, b, 1, 0))

RECURSIVE CmpFrom(_, _, _)
CmpFrom(a, b, i) ==
  IF i = 0 THEN 0
  ELSE IF a[i] < b[i] THEN -1
  ELSE IF a[i] > b[i] THEN 1
  ELSE CmpFrom(a, b, i - 1)

\* -1, 0, 1 as a < b, a = b, a > b
NatCmp(a, b) ==
  IF Len(a) < Len(b) THEN -1
  ELSE IF Len(a) > Len(b) THEN 1
  ELSE CmpFrom(a, b, Len(a))

RECURSIVE MulSmallFrom(_, _, _, _)
MulSmallFrom(a, k, i, c) ==
  IF i > Len(a) THEN (IF c = 0 THEN <<>> ELSE <<c>>)
  ELSE LET s == a[i] * k + c
       IN  <<s % Base>> \o MulSmallFrom(a, k, i + 1, s \div Base)

\* a * k for 0 <= k < Base
MulSmall(a, k) == Trim(MulSmallFrom(a, k, 1, 0))

RECURSIVE MulFrom(_, _, _)
MulFrom(a, b, j) ==
  IF j > Len(b) THEN <<>>
  ELSE NatAdd(MulSmallFrom(a, b[j], 1, 0), <<0>> \o MulFrom(a, b, j + 1))

NatMul(a, b) == Trim(MulFrom(a, b, 1))

RECURSIVE DivSmallFrom(_, _, _, _)
DivSmallFrom(a, d, i, r) ==
  IF i = 0 THEN <<>>
  ELSE LET cur == r * Base + a[i]
       IN  DivSmallFrom(a, d, i - 1, cur % d) \o <<cur \div d>>

\* a * 2^n
Shl(a, n) ==
  IF a = <<>> THEN a
  ELSE [i \in 1..(n \div LimbBits) |-> 0] \o MulSmall(a, 2^(n % LimbBits))

\* floor(a / 2^n)
Shr(a, n) ==
  IF n \div LimbBits >= Len(a) THEN <<>>
  ELSE LET hi == SubSeq(a, (n \div LimbBits) + 1, Len(a))
       IN  Trim(DivSmallFrom(hi, 2^(n % LimbBits), Len(hi), 0))

BitLen(a) ==
  IF a = <<>> THEN 0 ELSE (Len(a) - 1) * LimbBits + SmallBitLen(a[Len(a)])

NatOdd(a) == a # <<>> /\ a[1] % 2 = 1

----------------------------------------------------------------------------
(* IEEE-754 binary64 values and operations, round to nearest, ties to even. *)
(* The operations are functions: like Python, they take their operands      *)
(* already evaluated.                                                       *)

MantBits == 53

Float == [sign : {0, 1}, man : Seq(Nat), exp : Int]

Zero == [sign |-> 0, man |-> <<>>, exp |-> 0]

IsZero(x) == x.man = <<>>

\* The float nearest to (-1)^sign * (M + f) * 2^E, where 0 <= f < 1 and
\* sticky says whether f > 0 (sticky only with BitLen(M) > MantBits + 1).
Round(sign, M, E, sticky) ==
  LET L == BitLen(M)
  IN  IF M = <<>> THEN Zero
      ELSE IF L <= MantBits
        THEN [sign |-> sign, man |-> Shl(M, MantBits - L), exp |-> E - (MantBits - L)]
      ELSE LET sh   == L - MantBits
               q    == Shr(M, sh)
               r    == NatSub(M, Shl(q, sh))
               c    == NatCmp(r, Shl(<<1>>, sh - 1))
               up   == c > 0 \/ (c = 0 /\ (sticky \/ NatOdd(q)))
               q2   == IF up THEN NatAdd(q, <<1>>) ELSE q
           IN  IF BitLen(q2) > MantBits
                 THEN [sign |-> sign, man |-> Shr(q2, 1), exp |-> E + sh + 1]
                 ELSE [sign |-> sign, man |-> q2, exp |-> E + sh]

\* float(n) for a Python int n
FromInt[n \in Int] ==
  IF n < 0 THEN Round(1, NatOfInt(-n), 0, FALSE) ELSE Round(0, NatOfInt(n), 0, FALSE)

\* -x
FNeg[x \in Float] == IF IsZero(x) THEN x ELSE [x EXCEPT !.sign = 1 - x.sign]

\* x + y
FAdd[x \in Float, y \in Float] ==
  IF IsZero(x) THEN y
  ELSE IF IsZero(y) THEN x
  ELSE LET e == IF x.exp < y.exp THEN x.exp ELSE y.exp
           X == Shl(x.man, x.exp - e)
           Y == Shl(y.man, y.exp - e)
           c == NatCmp(X, Y)
       IN  IF x.sign = y.sign THEN Round(x.sign, NatAdd(X, Y), e, FALSE)
           ELSE IF c = 0 THEN Zero
           ELSE IF c > 0 THEN Round(x.sign, NatSub(X, Y), e, FALSE)
           ELSE Round(y.sign, NatSub(Y, X), e, FALSE)

\* x - y
FSub[x \in Float, y \in Float] == FAdd[x, FNeg[y]]

\* x * y
FMul[x \in Float, y \in Float] ==
  IF IsZero(x) \/ IsZero(y) THEN Zero
  ELSE Round((x.sign + y.sign) % 2, NatMul(x.man, y.man), x.exp + y.exp, FALSE)

\* n further quotient bits of r / d (r < d): <<quotient, remainder>>
DivStep[r \in Seq(Nat), d \in Seq(Nat), n \in Nat, q \in Nat] ==
  IF n = 0 THEN <<q, r>>
  ELSE LET r2 == NatAdd(r, r)
       IN  IF NatCmp(r2, d) >= 0 THEN DivStep[NatSub(r2, d), d, n - 1, 2 * q + 1]
           ELSE DivStep[r2, d, n - 1, 2 * q]

\* x / y for y # 0: the quotient of the significands to MantBits + 2 fraction
\* bits by long division, the remainder as the sticky bit
FDiv[x \in Float, y \in Float] ==
  IF IsZero(x) THEN Zero
  ELSE LET ge == NatCmp(x.man, y.man) >= 0
           r0 == IF ge THEN NatSub(x.man, y.man) ELSE x.man
           c1 == DivStep[r0, y.man, MantBits + 2 - 3 * LimbBits, IF ge THEN 1 ELSE 0]
           c2 == DivStep[c1[2], y.man, LimbBits, 0]
           c3 == DivStep[c2[2], y.man, LimbBits, 0]
           c4 == DivStep[c3[2], y.man, LimbBits, 0]
       IN  Round((x.sign + y.sign) % 2, Trim(<<c4[1], c3[1], c2[1], c1[1]>>),
                 x.exp - y.exp - (MantBits + 2), c4[2] # <<>>)

\* x < 0
FNegative(x) == x.sign = 1 /\ ~IsZero(x)

\* The float literal with decimal digits n and s digits after the point,
\* n / 10^s correctly rounded (n and 10^s are exact floats, so the rounded
\* quotient is the float nearest to the decimal).
Dec[n \in Int, s \in Nat] == FDiv[FromInt[n], FromInt[10^s]]

----------------------------------------------------------------------------
(* The look-up table.  Literals holds the number literals of the source as *)
(* written: <<8988, 3>> is the text 8.988, <<15, 0>> the int 15.  Table    *)
(* holds the values Python makes of them.  The int entries of the          *)
(* temperature list (15, 2) only ever meet floats in arithmetic, where     *)
(* Python converts them with float(), which Dec[n, 0] yields.              *)

Literals ==
  [ temperature |-> <<
      <<215, 1>>, <<15, 0>>, <<85, 1>>, <<2, 0>>, <<-449, 2>>, <<-1098, 2>>,
      <<-1747, 2>>, <<-2396, 2>>, <<-3045, 2>>, <<-3694, 2>>, <<-4342, 2>>,
      <<-499, 1>>, <<-565, 1>>, <<-565, 1>>, <<-516, 1>>, <<-4664, 2>>,
      <<-228, 1>>, <<-25, 1>>, <<-2613, 2>>, <<-5357, 2>>, <<-7451, 2>> >>,
    pressure |-> <<
      <<1139, 2>>, <<1013, 2>>, <<8988, 3>>, <<795, 2>>, <<7012, 3>>,
      <<6166, 3>>, <<5405, 3>>, <<4722, 3>>, <<4111, 3>>, <<3565, 3>>,
      <<308, 2>>, <<265, 2>>, <<1211, 3>>, <<5529, 4>>, <<2549, 4>>,
      <<1197, 4>>, <<287, 4>>, <<7978, 6>>, <<2196, 6>>, <<52, 5>>,
      <<11, 5>> >>,
    density |-> <<
      <<1347, 3>>, <<1225, 3>>, <<1112, 3>>, <<1007, 3>>, <<9093, 4>>,
      <<8194, 4>>, <<7364, 4>>, <<6601, 4>>, <<59, 2>>, <<5258, 4>>,
      <<4671, 4>>, <<4135, 4>>, <<1948, 4>>, <<8891, 5>>, <<4008, 5>>,
      <<1841, 5>>, <<3996, 6>>, <<1027, 6>>, <<3097, 7>>, <<8283, 8>>,
      <<1846, 8>> >>,
    dynamic_viscosity |-> <<
      <<1821, 3>>, <<1789, 3>>, <<1758, 3>>, <<1726, 3>>, <<1694, 3>>,
      <<1661, 3>>, <<1628, 3>>, <<1595, 3>>, <<1561, 3>>, <<1527, 3>>,
      <<1493, 3>>, <<1458, 3>>, <<1422, 3>>, <<1422, 3>>, <<1448, 3>>,
      <<1475, 3>>, <<1601, 3>>, <<1704, 3>>, <<1584, 3>>, <<1438, 3>>,
      <<1321, 3>> >> ]

\* the 'altitude' list: Python ints
Altitude ==
  <<-1000, 0, 1000, 2000, 3000, 4000, 5000, 6000, 7000, 8000, 9000, 10000,
    15000, 20000, 25000, 30000, 40000, 50000, 60000, 70000, 80000>>

Table ==
  [ key \in {"altitude"} \cup DOMAIN Literals |->
      IF key = "altitude" THEN Altitude
      ELSE [i \in DOMAIN Literals[key] |-> Dec[Literals[key][i][1], Literals[key][i][2]]] ]

----------------------------------------------------------------------------
(* Python values and sequences                                             *)

\* data[i] with a Python index i >= 0 (TLA+ sequences start at 1)
At(data, i) == data[i + 1]

\* data[-1]
Last(data) == data[Len(data)]

\* What get_index hands back: an int, None, or a raised IndexError
Int_(i) == [tag |-> "int", val |-> i]
None == [tag |-> "None", val |-> 0]
IndexError == [tag |-> "IndexError", val |-> 0]

\* What a float-valued function hands back: a value, or a raised exception
Value(v) == [exc |-> "", val |-> v]
Raise(e) == [exc |-> e, val |-> Zero]

----------------------------------------------------------------------------
(* get_index                                                               *)

\* Mutant of Scan: the loop runs on while data[i] <= value
RECURSIVE ScanPastEqual(_, _, _)
ScanPastEqual(value, data, i) ==
  IF i >= Len(data) THEN IndexError
  ELSE IF At(data, i) <= value THEN ScanPastEqual(value, data, i + 1)
  ELSE Int_(i)

\* while(data[i] < value): i += 1; data[i] raises IndexError past the end
RECURSIVE Scan(_, _, _)
Scan(value, data, i) ==
  IF i >= Len(data) THEN IndexError
  ELSE IF At(data, i) < value THEN Scan(value, data, i + 1)
  ELSE Int_(i)

\* Mutant of get_index: the test "value > data[-1]" is left out
get_index_unbounded(value, data) ==
  IF value < At(data, 0) THEN Int_(0) ELSE Scan(value, data, 1)

get_index(value, data) ==
  IF value > Last(data) THEN None
  ELSE IF value < At(data, 0) THEN Int_(0)
  ELSE Scan(value, data, 1)

----------------------------------------------------------------------------
(* linear_interpolate                                                      *)

\* Mutant of AfterNone: None becomes len(x_data) - 2
AfterNoneOffByOne(index, x_data) ==
  IF index.tag = "None" THEN Len(x_data) - 2 ELSE index.val

\* index after "if(index is None): index = len(x_data) - 1"
AfterNone(index, x_data) == IF index.tag = "None" THEN Len(x_data) - 1 ELSE index.val

\* index after "if(index == 0): index = 1"
AfterZero(index) == IF index = 0 THEN 1 ELSE index

\* the bracketing index linear_interpolate reads the sequences at
Bracket(target_x, x_data) == AfterZero(AfterNone(get_index(target_x, x_data), x_data))

\* Mutant of Slope: the difference of the ys is taken the other way round
SlopeReversed(x_n, x_n1, y_n, y_n1) == FDiv[FSub[y_n, y_n1], FromInt[x_n1 - x_n]]

\* slope = (y_n1 - y_n)/(x_n1-x_n)
Slope(x_n, x_n1, y_n, y_n1) == FDiv[FSub[y_n1, y_n], FromInt[x_n1 - x_n]]

\* Mutant of Estimate: the line starts from y_n1 instead of y_n
EstimateFromUpper(target_x, x_n, x_n1, y_n, y_n1) ==
  FAdd[y_n1, FMul[FDiv[FSub[y_n1, y_n], FromInt[x_n1 - x_n]], FromInt[target_x - x_n]]]

\* value = y_n + slope * (target_x - x_n)
Estimate(target_x, x_n, x_n1, y_n, y_n1) ==
  FAdd[y_n, FMul[Slope(x_n, x_n1, y_n, y_n1), FromInt[target_x - x_n]]]

linear_interpolate(target_x, x_data, y_data) ==
  IF get_index(target_x, x_data).tag = "IndexError" THEN Raise("IndexError")
  ELSE LET index == Bracket(target_x, x_data)
       IN  IF index >= Len(x_data) \/ index >= Len(y_data) THEN Raise("IndexError")
           ELSE IF At(x_data, index) = At(x_data, index - 1)
             THEN Raise("ZeroDivisionError")
           ELSE Value(Estimate(target_x, At(x_data, index - 1), At(x_data, index),
                               At(y_data, index - 1), At(y_data, index)))

----------------------------------------------------------------------------
(* State                                                                   *)

VARIABLES
  standard_atmosphere_lookup,  \* the module-level table
  pc,                          \* "idle", or "called": a call is running
  call,                        \* the call made last: [name, args]
  ret,                         \* what it returned
  exc,                         \* the exception it raised, "" for none
  out,                         \* the lines it printed
  memo                         \* an earlier finished call, kept for comparison

vars == <<standard_atmosphere_lookup, pc, call, ret, exc, out, memo>>

NoCall == [name |-> "", args |-> <<>>]
NoRet == [none |-> TRUE]
NoMemo == [call |-> NoCall, ret |-> NoRet, exc |-> "", out |-> <<>>, between |-> FALSE]

----------------------------------------------------------------------------
(* The accessors: each hands back [exc, val, out]                          *)

\* Mutant of OutOfBounds: the comparisons are <= and >=
OutOfBoundsInclusive(altitude) ==
  \/ altitude <= At(standard_atmosphere_lookup.altitude, 0)
  \/ altitude >= Last(standard_atmosphere_lookup.altitude)

\* altitude < altitude[0] or altitude > altitude[-1]
OutOfBounds(altitude) ==
  \/ altitude < At(standard_atmosphere_lookup.altitude, 0)
  \/ altitude > Last(standard_atmosphere_lookup.altitude)

Message(name) ==
  "StandardAtmosphere " \o name
    \o "() altitude out of bounds, proceeding with best available data"

Printed(name, altitude) == IF OutOfBounds(altitude) THEN <<Message(name)>> ELSE <<>>

Lookup(altitude, key) ==
  linear_interpolate(altitude, standard_atmosphere_lookup.altitude,
                     standard_atmosphere_lookup[key])

\* Mutant of Clamp: no lower bound
NoClamp(v) == v

\* if(v < 0): v = 0
Clamp(v) == IF FNegative(v) THEN FromInt[0] ELSE v

\* math.pow(10,4) and math.pow(10,-5)
Pow10_4 == FromInt[10^4]
Pow10_m5 == FDiv[FromInt[1], FromInt[10^5]]

\* The value of the one-element set S.  The({F(v) : v \in {e}}) is F(v) with
\* v bound to the value of e, evaluated once as a Python assignment does.
The(S) == CHOOSE v \in S : TRUE

\* what an accessor hands back after its look-up r: the exception r raised,
\* or the value v, and in both cases the lines printed before the look-up
Finish(r, v, printed) ==
  IF r.exc # "" THEN [exc |-> r.exc, val |-> NoRet, out |-> printed]
  ELSE [exc |-> "", val |-> v, out |-> printed]

get_pressure(altitude) ==
  The({Finish(r, FMul[Clamp(r.val), Pow10_4], Printed("get_pressure", altitude)) :
         r \in {Lookup(altitude, "pressure")}})

get_temperature(altitude) ==
  The({Finish(r, r.val, Printed("get_temperature", altitude)) :
         r \in {Lookup(altitude, "temperature")}})

get_density(altitude) ==
  The({Finish(r, Clamp(r.val), Printed("get_density", altitude)) :
         r \in {Lookup(altitude, "density")}})

get_dynamic_viscocity(altitude) ==
  The({Finish(r, FMul[Clamp(r.val), Pow10_m5], Printed("get_dynamic_viscocity", altitude)) :
         r \in {Lookup(altitude, "dynamic_viscosity")}})

\* Mutant of Assemble: density and dynamic_viscosity are stored under each
\* other's key
AssembleSwapped(p, t, v, d, altitude) ==
  [exc |-> "",
   val |-> [pressure |-> p.val, temperature |-> t.val,
            dynamic_viscosity |-> d.val, density |-> v.val,
            altitude |-> altitude],
   out |-> p.out \o t.out \o v.out \o d.out]

\* dict after the four calls p, t, v, d, made in the source's order; the
\* first of them to raise ends the call
Assemble(p, t, v, d, altitude) ==
  IF p.exc # "" THEN p
  ELSE IF t.exc # "" THEN [t EXCEPT !.out = p.out \o t.out]
  ELSE IF v.exc # "" THEN [v EXCEPT !.out = p.out \o t.out \o v.out]
  ELSE IF d.exc # "" THEN [d EXCEPT !.out = p.out \o t.out \o v.out \o d.out]
  ELSE [exc |-> "",
        val |-> [pressure |-> p.val, temperature |-> t.val,
                 dynamic_viscosity |-> v.val, density |-> d.val,
                 altitude |-> altitude],
        out |-> p.out \o t.out \o v.out \o d.out]

get_standard_atmosphere(altitude) ==
  The({Assemble(p, t, v, d, altitude) :
         p \in {get_pressure(altitude)}, t \in {get_temperature(altitude)},
         v \in {get_dynamic_viscocity(altitude)}, d \in {get_density(altitude)}})

----------------------------------------------------------------------------
(* Inputs                                                                  *)

MaxProbe == 3    \* altitudes probed strictly inside each table interval
MaxPow == 6      \* out-of-table altitudes up to 10^MaxPow beyond either end
MaxLen == 3      \* longest sequence handed to get_index on its own
MaxVal == 4      \* largest entry of such a sequence

Breakpoints == {Altitude[i] : i \in DOMAIN Altitude}

Probes ==
  {Altitude[i] + (j * (Altitude[i + 1] - Altitude[i])) \div (MaxProbe + 1) :
     i \in 1..(Len(Altitude) - 1), j \in 1..MaxProbe}

Beyond ==
  {At(Altitude, 0) - 10^k : k \in 0..MaxPow}
    \cup {Last(Altitude) + 10^k : k \in 0..MaxPow}

\* altitudes the documentation names, and the one of the module's __main__
Named == {-1000000, -5000, 500, 1259, 90000, 1000000}

Altitudes == Breakpoints \cup Probes \cup Beyond \cup Named

\* the altitudes of the runs that compare one call with an earlier one
FrameAltitudes == Named \cup {At(Altitude, 0), 0, 40000, 70000, Last(Altitude)}

Keys == {"pressure", "temperature", "density", "dynamic_viscosity"}

Single == {"get_pressure", "get_temperature", "get_density", "get_dynamic_viscocity"}

Accessors == Single \cup {"get_standard_atmosphere"}

\* the strictly increasing sequences over 0..MaxVal of length 2..MaxLen
Increasing ==
  {s \in UNION {[1..n -> 0..MaxVal] : n \in 2..MaxLen} :
     \A i \in 1..(Len(s) - 1) : s[i] < s[i + 1]}

Values == -1..(MaxVal + 1)

----------------------------------------------------------------------------
(* Actions                                                                 *)

Init ==
  /\ standard_atmosphere_lookup = Table
  /\ pc = "idle"
  /\ call = NoCall
  /\ ret = NoRet
  /\ exc = ""
  /\ out = <<>>
  /\ memo = NoMemo

\* A caller invokes name(args): nothing of the callee has run yet.
Invoke(name, args) ==
  /\ pc' = "called"
  /\ call' = [name |-> name, args |-> args]
  /\ ret' = NoRet
  /\ exc' = ""
  /\ out' = <<>>
  /\ UNCHANGED <<standard_atmosphere_lookup, memo>>

CallAccessor ==
  /\ pc = "idle"
  /\ \E name \in Accessors, altitude \in Altitudes : Invoke(name, <<altitude>>)

CallInterpolate ==
  /\ pc = "idle"
  /\ \E altitude \in Altitudes, key \in Keys :
       Invoke("linear_interpolate",
              <<altitude, standard_atmosphere_lookup.altitude, standard_atmosphere_lookup[key]>>)

CallIndex ==
  /\ pc = "idle"
  /\ \E value \in Values, data \in Increasing : Invoke("get_index", <<value, data>>)

CallFrame ==
  /\ pc = "idle"
  /\ \E name \in Accessors, altitude \in FrameAltitudes : Invoke(name, <<altitude>>)

\* memo after a call other than the remembered one has finished
Observed == IF memo # NoMemo /\ memo.call # call THEN [memo EXCEPT !.between = TRUE] ELSE memo

\* The running call comes to its end and hands back r = [exc, val, out].
\* No function of the source assigns to the table.
Return(r) ==
  /\ pc' = "idle"
  /\ ret' = r.val
  /\ exc' = r.exc
  /\ out' = r.out
  /\ memo' = Observed
  /\ UNCHANGED <<standard_atmosphere_lookup, call>>

\* Mutant of GetPressure: the conversion to Pa is also applied in place to
\* the table's pressure list
GetPressureInPlace ==
  /\ pc = "called"
  /\ call.name = "get_pressure"
  /\ \E r \in {get_pressure(call.args[1])} :
       /\ pc' = "idle"
       /\ ret' = r.val
       /\ exc' = r.exc
       /\ out' = r.out
       /\ memo' = Observed
       /\ standard_atmosphere_lookup' =
            [standard_atmosphere_lookup EXCEPT
               !.pressure = [i \in DOMAIN @ |-> FMul[@[i], Pow10_4]]]
       /\ UNCHANGED call

GetPressure ==
  /\ pc = "called"
  /\ call.name = "get_pressure"
  /\ \E r \in {get_pressure(call.args[1])} : Return(r)

GetTemperature ==
  /\ pc = "called"
  /\ call.name = "get_temperature"
  /\ \E r \in {get_temperature(call.args[1])} : Return(r)

GetDensity ==
  /\ pc = "called"
  /\ call.name = "get_density"
  /\ \E r \in {get_density(call.args[1])} : Return(r)

GetDynamicViscocity ==
  /\ pc = "called"
  /\ call.name = "get_dynamic_viscocity"
  /\ \E r \in {get_dynamic_viscocity(call.args[1])} : Return(r)

GetStandardAtmosphere ==
  /\ pc = "called"
  /\ call.name = "get_standard_atmosphere"
  /\ \E r \in {get_standard_atmosphere(call.args[1])} : Return(r)

LinearInterpolate ==
  /\ pc = "called"
  /\ call.name = "linear_interpolate"
  /\ \E r \in {linear_interpolate(call.args[1], call.args[2], call.args[3])} :
       Return([exc |-> r.exc, val |-> IF r.exc = "" THEN r.val ELSE NoRet, out |-> <<>>])

GetIndex ==
  /\ pc = "called"
  /\ call.name = "get_index"
  /\ \E r \in {get_index(call.args[1], call.args[2])} :
       Return(IF r.tag = "IndexError" THEN [exc |-> "IndexError", val |-> NoRet, out |-> <<>>]
              ELSE [exc |-> "", val |-> r, out |-> <<>>])

\* An observer keeps the finished call to compare later calls with.
Remember ==
  /\ pc = "idle"
  /\ call # NoCall
  /\ memo' = [call |-> call, ret |-> ret, exc |-> exc, out |-> out, between |-> FALSE]
  /\ UNCHANGED <<standard_atmosphere_lookup, pc, call, ret, exc, out>>

Handlers ==
  \/ GetPressure
  \/ GetTemperature
  \/ GetDensity
  \/ GetDynamicViscocity
  \/ GetStandardAtmosphere

Next == CallAccessor \/ CallInterpolate \/ Handlers \/ LinearInterpolate

Spec == Init /\ [][Next]_vars

\* get_index on its own, over every small strictly increasing sequence
NextIndex == CallIndex \/ GetIndex

SpecIndex == Init /\ [][NextIndex]_vars

\* sequences of accessor calls, with an earlier call remembered
NextFrame == CallFrame \/ Handlers \/ Remember

SpecFrame == Init /\ [][NextFrame]_vars

----------------------------------------------------------------------------
(* What the claims speak of                                                *)

\* a call has returned (or raised)
Done == pc = "idle" /\ call # NoCall

\* the altitude of an accessor call, the target_x of linear_interpolate
Arg == call.args[1]

Clamped == {"get_pressure", "get_density", "get_dynamic_viscocity"}

\* the table column an accessor reads
KeyOf(name) ==
  CASE name = "get_pressure" -> "pressure"
    [] name = "get_temperature" -> "temperature"
    [] name = "get_density" -> "density"
    [] name = "get_dynamic_viscocity" -> "dynamic_viscosity"

\* the accessor's unit conversion of a table value v
Converted(name, v) ==
  CASE name = "get_pressure" -> FMul[v, Pow10_4]
    [] name = "get_dynamic_viscocity" -> FMul[v, Pow10_m5]
    [] OTHER -> v

MinAltitude == At(Altitude, 0)
MaxAltitude == Last(Altitude)
InTable(a) == MinAltitude <= a /\ a <= MaxAltitude

\* the interpolated table value of column key at altitude a, before any
\* clamping or scaling
Raw(a, key) == linear_interpolate(a, Table.altitude, Table[key]).val

\* |x - y| <= 2^-50 * |y|: x is y up to a few units in the last place
Near(x, y) ==
  IF IsZero(y) \/ IsZero(x) THEN x = y
  ELSE /\ x.sign = y.sign
       /\ LET e == IF x.exp < y.exp THEN x.exp ELSE y.exp
              X == Shl(x.man, x.exp - e)
              Y == Shl(y.man, y.exp - e)
              D == IF NatCmp(X, Y) >= 0 THEN NatSub(X, Y) ELSE NatSub(Y, X)
          IN  NatCmp(Shl(D, 50), Y) <= 0

\* -1, 0, 1 as |x| < |y|, |x| = |y|, |x| > |y|
FMagCmp(x, y) ==
  IF IsZero(x) THEN (IF IsZero(y) THEN 0 ELSE -1)
  ELSE IF IsZero(y) THEN 1
  ELSE IF x.exp < y.exp THEN -1
  ELSE IF x.exp > y.exp THEN 1
  ELSE NatCmp(x.man, y.man)

\* -1, 0, 1 as x < y, x = y, x > y
FCmp[x \in Float, y \in Float] ==
  IF FNegative(x) /\ ~FNegative(y) THEN -1
  ELSE IF ~FNegative(x) /\ FNegative(y) THEN 1
  ELSE IF FNegative(x) THEN -FMagCmp(x, y)
  ELSE FMagCmp(x, y)

\* p <= v <= q or q <= v <= p
Between(v, p, q) ==
  \/ FCmp[p, v] <= 0 /\ FCmp[v, q] <= 0
  \/ FCmp[q, v] <= 0 /\ FCmp[v, p] <= 0

MinOf(S) == CHOOSE m \in S : \A n \in S : m <= n

\* the bracketing index (a Python index) the documentation describes
DocBracket(a, x) ==
  IF a > Last(x) THEN Len(x) - 1
  ELSE IF a <= At(x, 0) THEN 1
  ELSE CHOOSE k \in 1..(Len(x) - 1) : At(x, k - 1) < a /\ a <= At(x, k)

\* y[k-1] + (y[k]-y[k-1])/(x[k]-x[k-1]) * (a - x[k-1])
DocLine(a, x, y, k) ==
  FAdd[At(y, k - 1),
       FMul[FDiv[FSub[At(y, k), At(y, k - 1)], FromInt[At(x, k) - At(x, k - 1)]],
            FromInt[a - At(x, k - 1)]]]

----------------------------------------------------------------------------
\* C1: for every altitude get_pressure, get_density and
\* get_dynamic_viscocity return a value >= 0 (also as fields of
\* get_standard_atmosphere's record); a negative interpolated table value
\* is replaced by 0 before the unit scaling, so the result is then 0.
C1_NonNegative ==
  /\ (Done /\ call.name \in Clamped) =>
       /\ exc = ""
       /\ ~FNegative(ret)
       /\ FNegative(Raw(Arg, KeyOf(call.name))) => IsZero(ret)
  /\ (Done /\ call.name = "get_standard_atmosphere") =>
       /\ exc = ""
       /\ \A f \in {"pressure", "density", "dynamic_viscosity"} : ~FNegative(ret[f])

\* an extreme altitude whose extrapolated table value is negative was asked
\* for and 0 came back
C1_Clamped ==
  /\ Done
  /\ call.name \in Clamped
  /\ Arg = 1000000
  /\ FNegative(Raw(Arg, KeyOf(call.name)))
  /\ IsZero(ret)

----------------------------------------------------------------------------
AtBreakpoint == Done /\ call.name \in Single /\ Arg \in Breakpoints

\* the stored value of the accessor's column at the breakpoint asked for,
\* after the accessor's unit conversion
StoredConverted ==
  Converted(call.name,
            Table[KeyOf(call.name)][CHOOSE i \in DOMAIN Altitude : Altitude[i] = Arg])

\* C2 as claimed: at every breakpoint altitude[i] each accessor returns
\* exactly the stored value at index i after its unit conversion.
C2_ExactAtBreakpoints == AtBreakpoint => (exc = "" /\ ret = StoredConverted)

\* C2 as amended: at every breakpoint each accessor returns the stored value
\* after its unit conversion up to floating-point rounding (a relative
\* difference of at most 2^-50), and exactly that value at the first
\* breakpoint.
C2_NearAtBreakpoints ==
  AtBreakpoint =>
    /\ exc = ""
    /\ Near(ret, StoredConverted)
    /\ Arg = MinAltitude => ret = StoredConverted

\* a breakpoint where the value returned is not the stored one
C2_Rounded == AtBreakpoint /\ exc = "" /\ ret # StoredConverted /\ Near(ret, StoredConverted)

----------------------------------------------------------------------------
\* C3: for every altitude, in or out of the table, every accessor (and
\* linear_interpolate) returns a value without raising: the scan of
\* get_index stops inside the table, the index linear_interpolate reads at
\* and its predecessor are indices of the sequences, and the two altitudes
\* of the slope's denominator differ.
C3_NeverRaises ==
  Done =>
    /\ exc = ""
    /\ get_index(Arg, Table.altitude).tag \in {"int", "None"}
    /\ get_index(Arg, Table.altitude).tag = "int" =>
         get_index(Arg, Table.altitude).val \in 0..(Len(Altitude) - 1)
    /\ Bracket(Arg, Table.altitude) \in 1..(Len(Altitude) - 1)
    /\ At(Altitude, Bracket(Arg, Table.altitude)) # At(Altitude, Bracket(Arg, Table.altitude) - 1)

\* an accessor was called far outside the table and returned
C3_ReturnedOutOfRange ==
  Done /\ call.name \in Accessors /\ Arg > MaxAltitude + 1000 /\ exc = ""

----------------------------------------------------------------------------
\* C4 as claimed: a single-quantity accessor prints its warning exactly when
\* the altitude is not strictly inside (min, max), so also at min and max.
C4_WarnsUnlessStrictlyInside ==
  (Done /\ call.name \in Single) =>
    /\ exc = ""
    /\ out = IF MinAltitude < Arg /\ Arg < MaxAltitude THEN <<>> ELSE <<Message(call.name)>>

\* C4 as amended: a single-quantity accessor prints its warning exactly when
\* the altitude is below the minimum or above the maximum of the table, and
\* nothing when min <= altitude <= max (so nothing at -1000 and at 80000);
\* in both cases it returns the value.
C4_WarnsOutside ==
  (Done /\ call.name \in Single) =>
    /\ exc = ""
    /\ ret = Converted(call.name,
                       IF call.name = "get_temperature" THEN Raw(Arg, KeyOf(call.name))
                       ELSE Clamp(Raw(Arg, KeyOf(call.name))))
    /\ out = IF Arg < MinAltitude \/ Arg > MaxAltitude THEN <<Message(call.name)>> ELSE <<>>

\* an accessor was called at the minimum or maximum and printed nothing
C4_SilentAtEndpoint ==
  Done /\ call.name \in Single /\ Arg \in {MinAltitude, MaxAltitude} /\ out = <<>>

----------------------------------------------------------------------------
\* the record field get_standard_atmosphere stores an accessor's result in
FieldOf(name) == KeyOf(name)

\* C5: get_standard_atmosphere(a) returns a record with exactly the fields
\* pressure, temperature, dynamic_viscosity, density and altitude; each
\* quantity field is what the accessor of that quantity returns for a, also
\* when that accessor was called on its own earlier; altitude is a.
C5_Aggregate ==
  (Done /\ call.name = "get_standard_atmosphere") =>
    /\ exc = ""
    /\ DOMAIN ret = {"pressure", "temperature", "dynamic_viscosity", "density", "altitude"}
    /\ ret.altitude = Arg
    /\ ret.pressure = get_pressure(Arg).val
    /\ ret.temperature = get_temperature(Arg).val
    /\ ret.dynamic_viscosity = get_dynamic_viscocity(Arg).val
    /\ ret.density = get_density(Arg).val
    /\ (memo.call.name \in Single /\ memo.call.args = call.args) =>
         ret[FieldOf(memo.call.name)] = memo.ret

\* get_standard_atmosphere returned after get_density had been called on its
\* own with the same out-of-table altitude
C5_AfterSingleCall ==
  /\ Done
  /\ call.name = "get_standard_atmosphere"
  /\ memo.call.name = "get_density"
  /\ memo.call.args = call.args
  /\ Arg = 90000

----------------------------------------------------------------------------
\* C6: after any sequence of accessor calls the table is the one built at
\* import, and a call returns (and prints) what an earlier call with the same
\* altitude did, whatever was called in between.
C6_Frame ==
  /\ standard_atmosphere_lookup = Table
  /\ (Done /\ memo.call = call) =>
       (memo.ret = ret /\ memo.exc = exc /\ memo.out = out)

\* a call was repeated after other calls
C6_Repeated == Done /\ memo.call = call /\ memo.between

----------------------------------------------------------------------------
IndexDone == Done /\ call.name = "get_index"
Data == call.args[2]
InData == At(Data, 0) <= Arg /\ Arg <= Last(Data)

\* C7 as claimed: for x[0] <= value <= x[last], get_index returns the
\* smallest index i with x[i] >= value, so j when value = x[j], j = 0
\* included.
C7_SmallestNotLess ==
  (IndexDone /\ InData) =>
    /\ exc = ""
    /\ ret = Int_(MinOf({i \in 0..(Len(Data) - 1) : At(Data, i) >= Arg}))

\* C7 as amended: for x[0] <= value <= x[last], get_index returns the
\* smallest index i >= 1 with x[i] >= value: j when value = x[j] with j >= 1,
\* and 1 when value = x[0].
C7_SmallestNotLessFromOne ==
  (IndexDone /\ InData) =>
    /\ exc = ""
    /\ ret = Int_(MinOf({i \in 1..(Len(Data) - 1) : At(Data, i) >= Arg}))
    /\ \A j \in 1..(Len(Data) - 1) : Arg = At(Data, j) => ret = Int_(j)
    /\ Arg = At(Data, 0) => ret = Int_(1)

\* get_index was asked for the first entry and returned 1
C7_FirstEntry == IndexDone /\ Arg = At(Data, 0) /\ exc = "" /\ ret = Int_(1)

----------------------------------------------------------------------------
\* C8: get_index returns the index of the smallest entry strictly greater
\* than value, and None exactly when value >= x[last].
C8_StrictlyGreater ==
  IndexDone =>
    /\ exc = ""
    /\ ret = IF Arg >= Last(Data) THEN None
             ELSE Int_(MinOf({i \in 0..(Len(Data) - 1) : At(Data, i) > Arg}))

----------------------------------------------------------------------------
InterpolateDone == Done /\ call.name = "linear_interpolate"

\* C9: linear_interpolate(a, x, y) is y[k-1] + (y[k]-y[k-1])/(x[k]-x[k-1]) *
\* (a - x[k-1]) with k the last index for a above the last breakpoint, 1 for
\* a at or below the first, and otherwise the k with x[k-1] < a <= x[k].
C9_Line ==
  InterpolateDone =>
    /\ exc = ""
    /\ ret = DocLine(Arg, call.args[2], call.args[3], DocBracket(Arg, call.args[2]))

\* linear_interpolate extrapolated above the last breakpoint
C9_Extrapolated == InterpolateDone /\ Arg = 90000 /\ exc = ""

----------------------------------------------------------------------------
\* v lies between the stored values of some pair of neighbouring breakpoints
\* that bracket a
BetweenStored(a, y, v) ==
  \E k \in 1..(Len(Altitude) - 1) :
    /\ At(Altitude, k - 1) <= a
    /\ a <= At(Altitude, k)
    /\ Between(v, At(y, k - 1), At(y, k))

\* in-table queries of the clamped accessors return the scaled interpolated
\* value, which is positive: the clamp does not act
ClampIdle ==
  (Done /\ call.name \in Clamped /\ InTable(Arg)) =>
    /\ exc = ""
    /\ ~FNegative(Raw(Arg, KeyOf(call.name)))
    /\ ~IsZero(Raw(Arg, KeyOf(call.name)))
    /\ ret = Converted(call.name, Raw(Arg, KeyOf(call.name)))

\* C10 as claimed: for -1000 <= a <= 80000 the interpolated value lies
\* between the stored values at the breakpoints bracketing a, and the clamp
\* never changes the result of an in-table query.
C10_BetweenStored ==
  /\ (InterpolateDone /\ InTable(Arg)) =>
       (exc = "" /\ BetweenStored(Arg, call.args[3], ret))
  /\ ClampIdle

\* C10 as amended: for -1000 <= a <= 80000 the interpolated value lies
\* between the stored values at the breakpoints bracketing a or is the
\* stored value at the upper one up to floating-point rounding (a relative
\* difference of at most 2^-50); the interpolated pressure, density and
\* viscosity are positive, and the clamp never changes the result of an
\* in-table query.
C10_BetweenOrNearStored ==
  /\ (InterpolateDone /\ InTable(Arg)) =>
       /\ exc = ""
       /\ \/ BetweenStored(Arg, call.args[3], ret)
          \/ Near(ret, At(call.args[3], DocBracket(Arg, call.args[2])))
  /\ ClampIdle

\* an in-table interpolation fell outside the stored values by a rounding
\* error
C10_RoundedOutside ==
  /\ InterpolateDone
  /\ InTable(Arg)
  /\ exc = ""
  /\ ~BetweenStored(Arg, call.args[3], ret)
  /\ Near(ret, At(call.args[3], DocBracket(Arg, call.args[2])))

====
